---- MODULE Spec2Model ----
(***************************************************************************)
(* A model of hilabs_hackathon_submission.py: the interpretation of a      *)
(* model completion (extract_with_llm), the normalisation of the parsed    *)
(* record and the row built from it (the body of process_eml_files), the   *)
(* write of the row to the output workbook (append_row_to_template) and    *)
(* the batch loop of main.                                                 *)
(*                                                                         *)
(* A Python str is a sequence of characters, each a one-character TLA+     *)
(* string; a character that a \uXXXX escape yields outside ASCII is the    *)
(* six-character string "\uXXXX" naming its code point.                    *)
(***************************************************************************)
EXTENDS Integers, Sequences, FiniteSets, TLC

VARIABLES
    pc,          \* where the run is (main / process_eml_files position)
    eml_paths,   \* main: the email sources, in processing order
    batch,       \* main: args.batch
    template,    \* the header row of the template workbook (row 1)
    i,           \* main: the batch loop's index
    batch_files, \* process_eml_files: its eml_paths argument
    j,           \* process_eml_files: position in batch_files (1-based)
    email_text,  \* process_eml_files: the loaded text of the current email
    extracted,   \* process_eml_files: the interpreter's result
    final,       \* process_eml_files: the normalised record
    row,         \* process_eml_files: the row built in template order
    out_file,    \* the workbook stored at out_path
    appends,     \* history: the calls of append_row_to_template so far
    began,       \* history: the emails whose text load was begun, in order
    out,         \* interpreter check: the completion text
    interp,      \* interpreter check: the outcome of the interpreter
    phase        \* interpreter / record check: position

vars == <<pc, eml_paths, batch, template, i, batch_files, j, email_text,
          extracted, final, row, out_file, appends, began, out, interp, phase>>

-----------------------------------------------------------------------------
(* Python values, as the json module builds them. *)

PyNone == [t |-> "none"]
PyStr(s) == [t |-> "str", s |-> s]
PyInt(n) == [t |-> "int", n |-> n]
PyBool(b) == [t |-> "bool", b |-> b]
\* A float keeps the literal it was read from.
PyFloat(lit) == [t |-> "float", lit |-> lit]
PyList(items) == [t |-> "list", items |-> items]
\* A dict is its items in insertion order, keys unique.
PyDict(pairs) == [t |-> "dict", pairs |-> pairs]

EmptyDict == PyDict(<<>>)

isinstance_dict(v) == v.t = "dict"
isinstance_list(v) == v.t = "list"
isinstance_str(v) == v.t = "str"

\* d[k] = v on the item sequence of a dict: a present key keeps its place.
DictSet(pairs, k, v) ==
    IF \E n \in 1..Len(pairs) : pairs[n].k = k
    THEN LET n == CHOOSE m \in 1..Len(pairs) : pairs[m].k = k
         IN SubSeq(pairs, 1, n - 1) \o <<[k |-> k, v |-> v]>>
                \o SubSeq(pairs, n + 1, Len(pairs))
    ELSE Append(pairs, [k |-> k, v |-> v])

\* dict.get(k): the value, or None.
DictGet(d, k) ==
    IF \E n \in 1..Len(d.pairs) : d.pairs[n].k = k
    THEN d.pairs[CHOOSE n \in 1..Len(d.pairs) : d.pairs[n].k = k].v
    ELSE PyNone

DictKeys(d) == {d.pairs[n].k : n \in 1..Len(d.pairs)}

-----------------------------------------------------------------------------
(* Characters. *)

\* The printable ASCII characters, code points 32..126 in order (the grave
\* accent, which a TLA+ string cannot hold, by its code point).
Ascii == <<" ", "!", "\"", "#", "$", "%", "&", "'", "(", ")", "*", "+", ",", "-", ".", "/", "0", "1", "2", "3", "4", "5", "6", "7", "8", "9", ":", ";", "<", "=", ">", "?", "@", "A", "B", "C", "D", "E", "F", "G", "H", "I", "J", "K", "L", "M", "N", "O", "P", "Q", "R", "S", "T", "U", "V", "W", "X", "Y", "Z", "[", "\\", "]", "^", "_", "\\u0060", "a", "b", "c", "d", "e", "f", "g", "h", "i", "j", "k", "l", "m", "n", "o", "p", "q", "r", "s", "t", "u", "v", "w", "x", "y", "z", "{", "|", "}", "~">>

HexChars == <<"0", "1", "2", "3", "4", "5", "6", "7", "8", "9", "a", "b", "c", "d", "e", "f">>

Digit == {"0", "1", "2", "3", "4", "5", "6", "7", "8", "9"}
DigitVal(c) == CHOOSE n \in 0..9 : HexChars[n + 1] = c

HexDigit == Digit \cup {"a", "b", "c", "d", "e", "f", "A", "B", "C", "D", "E", "F"}
HexVal(c) ==
    IF c \in Digit THEN DigitVal(c)
    ELSE CASE c \in {"a", "A"} -> 10 [] c \in {"b", "B"} -> 11
           [] c \in {"c", "C"} -> 12 [] c \in {"d", "D"} -> 13
           [] c \in {"e", "E"} -> 14 [] c \in {"f", "F"} -> 15

\* The character of a code point below 2^16.
Chr(code) ==
    IF code >= 32 /\ code <= 126 THEN Ascii[code - 31]
    ELSE CASE code = 9 -> "\t" [] code = 10 -> "\n"
           [] code = 12 -> "\f" [] code = 13 -> "\r"
           [] OTHER -> "\\u" \o HexChars[(code \div 4096) + 1]
                              \o HexChars[((code \div 256) % 16) + 1]
                              \o HexChars[((code \div 16) % 16) + 1]
                              \o HexChars[(code % 16) + 1]

\* The characters str.isspace holds of, which str.strip removes.
Whitespace ==
    {Chr(c) : c \in (9..13) \cup (28..32) \cup {133, 160, 5760} \cup (8192..8202)
                        \cup {8232, 8233, 8239, 8287, 12288}}

\* The characters that end a line (str.splitlines).
LineBreak == {Chr(c) : c \in (10..13) \cup (28..30) \cup {133, 8232, 8233}}

\* Code points below 0x20: not allowed raw inside a JSON string (strict).
ControlChar == {Chr(c) : c \in 0..31}

\* json.decoder.BACKSLASH
BACKSLASH(c) ==
    CASE c = "\"" -> "\"" [] c = "\\" -> "\\" [] c = "/" -> "/"
      [] c = "b" -> Chr(8) [] c = "f" -> "\f" [] c = "n" -> "\n"
      [] c = "r" -> "\r" [] c = "t" -> "\t"
BackslashChars == {"\"", "\\", "/", "b", "f", "n", "r", "t"}

-----------------------------------------------------------------------------
(* json.loads, as json.decoder and json.scanner compute it (strict, no     *)
(* hooks).  Positions are 1-based; a scan returns the value and the        *)
(* position after it, or fails (JSONDecodeError).                          *)

Fail == [ok |-> FALSE]
Ok(v, e) == [ok |-> TRUE, val |-> v, end |-> e]

\* s[i:i+1] of Python, at the 1-based position i.
At(s, n) == IF n >= 1 /\ n <= Len(s) THEN s[n] ELSE ""

\* json.decoder.WHITESPACE: [ \t\n\r]*
JsonWs == {" ", "\t", "\n", "\r"}
RECURSIVE SkipWs(_, _)
SkipWs(s, n) == IF At(s, n) \in JsonWs THEN SkipWs(s, n + 1) ELSE n

\* s[n:n+len(lit)] == lit
Literal(s, n, lit) ==
    /\ n + Len(lit) - 1 <= Len(s)
    /\ \A m \in 1..Len(lit) : s[n + m - 1] = lit[m]

\* json.decoder.scanstring from the position after the opening quote.
RECURSIVE scanstring(_, _, _)
scanstring(s, n, acc) ==
    IF n > Len(s) THEN Fail
    ELSE IF s[n] = "\"" THEN Ok(acc, n + 1)
    ELSE IF s[n] = "\\" THEN
        IF At(s, n + 1) = "u" THEN
            IF n + 5 <= Len(s) /\ \A m \in (n + 2)..(n + 5) : s[m] \in HexDigit
            THEN scanstring(s, n + 6,
                     Append(acc, Chr(4096 * HexVal(s[n + 2]) + 256 * HexVal(s[n + 3])
                                      + 16 * HexVal(s[n + 4]) + HexVal(s[n + 5]))))
            ELSE Fail
        ELSE IF At(s, n + 1) \in BackslashChars
        THEN scanstring(s, n + 2, Append(acc, BACKSLASH(s[n + 1])))
        ELSE Fail
    ELSE IF s[n] \in ControlChar THEN Fail
    ELSE scanstring(s, n + 1, Append(acc, s[n]))

\* The position after the digits that start at n.
RECURSIVE DigitsEnd(_, _)
DigitsEnd(s, n) == IF At(s, n) \in Digit THEN DigitsEnd(s, n + 1) ELSE n

\* int() of the digits s[a..b].
RECURSIVE DigitsInt(_, _, _)
DigitsInt(s, a, b) ==
    IF b < a THEN 0 ELSE 10 * DigitsInt(s, a, b - 1) + DigitVal(s[b])

\* json.scanner.NUMBER_RE matched at n: (-?(?:0|[1-9]\d*))(\.\d+)?([eE][-+]?\d+)?
match_number(s, n) ==
    LET p == IF At(s, n) = "-" THEN n + 1 ELSE n
        intEnd == IF At(s, p) = "0" THEN p + 1 ELSE DigitsEnd(s, p)
        fracEnd == IF At(s, intEnd) = "." /\ At(s, intEnd + 1) \in Digit
                   THEN DigitsEnd(s, intEnd + 1) ELSE intEnd
        expAt == IF At(s, fracEnd + 1) \in {"-", "+"} THEN fracEnd + 2 ELSE fracEnd + 1
        expEnd == IF At(s, fracEnd) \in {"e", "E"} /\ At(s, expAt) \in Digit
                  THEN DigitsEnd(s, expAt) ELSE fracEnd
    IN IF At(s, p) \notin Digit THEN Fail
       ELSE IF expEnd = intEnd
       THEN Ok(PyInt((IF p = n THEN 1 ELSE -1) * DigitsInt(s, p, intEnd - 1)), intEnd)
       ELSE Ok(PyFloat(SubSeq(s, n, expEnd - 1)), expEnd)

RECURSIVE scan_once(_, _), JSONObjectPairs(_, _, _), JSONArrayItems(_, _, _)

\* json.decoder.JSONObject from the position after "{".
JSONObject(s, n) ==
    LET q == SkipWs(s, n)
    IN IF At(s, q) = "}" THEN Ok(EmptyDict, q + 1)
       ELSE IF At(s, q) # "\"" THEN Fail
       ELSE JSONObjectPairs(s, q + 1, <<>>)

\* The loop of JSONObject, from the position after a key's opening quote.
JSONObjectPairs(s, n, pairs) ==
    LET key == scanstring(s, n, <<>>)
    IN IF ~key.ok THEN Fail
       ELSE LET colon == SkipWs(s, key.end)
            IN IF At(s, colon) # ":" THEN Fail
               ELSE LET value == scan_once(s, SkipWs(s, colon + 1))
                    IN IF ~value.ok THEN Fail
                       ELSE LET items == DictSet(pairs, key.val, value.val)
                                sep == SkipWs(s, value.end)
                                nxt == SkipWs(s, sep + 1)
                            IN IF At(s, sep) = "}" THEN Ok(PyDict(items), sep + 1)
                               ELSE IF At(s, sep) # "," THEN Fail
                               ELSE IF At(s, nxt) # "\"" THEN Fail
                               ELSE JSONObjectPairs(s, nxt + 1, items)

\* json.decoder.JSONArray from the position after "[".
JSONArray(s, n) ==
    LET q == SkipWs(s, n)
    IN IF At(s, q) = "]" THEN Ok(PyList(<<>>), q + 1)
       ELSE JSONArrayItems(s, q, <<>>)

\* The loop of JSONArray, from the position of an element.
JSONArrayItems(s, n, items) ==
    LET value == scan_once(s, n)
    IN IF ~value.ok THEN Fail
       ELSE LET sep == SkipWs(s, value.end)
            IN IF At(s, sep) = "]" THEN Ok(PyList(Append(items, value.val)), sep + 1)
               ELSE IF At(s, sep) # "," THEN Fail
               ELSE JSONArrayItems(s, SkipWs(s, sep + 1), Append(items, value.val))

\* json.scanner.py_make_scanner._scan_once
scan_once(s, n) ==
    LET c == At(s, n)
    IN IF c = "\"" THEN
           LET str == scanstring(s, n + 1, <<>>)
           IN IF str.ok THEN Ok(PyStr(str.val), str.end) ELSE Fail
       ELSE IF c = "{" THEN JSONObject(s, n + 1)
       ELSE IF c = "[" THEN JSONArray(s, n + 1)
       ELSE IF Literal(s, n, <<"n", "u", "l", "l">>) THEN Ok(PyNone, n + 4)
       ELSE IF Literal(s, n, <<"t", "r", "u", "e">>) THEN Ok(PyBool(TRUE), n + 4)
       ELSE IF Literal(s, n, <<"f", "a", "l", "s", "e">>) THEN Ok(PyBool(FALSE), n + 5)
       ELSE IF match_number(s, n).ok THEN match_number(s, n)
       ELSE IF Literal(s, n, <<"N", "a", "N">>) THEN Ok(PyFloat(SubSeq(s, n, n + 2)), n + 3)
       ELSE IF Literal(s, n, <<"I", "n", "f", "i", "n", "i", "t", "y">>)
       THEN Ok(PyFloat(SubSeq(s, n, n + 7)), n + 8)
       ELSE IF Literal(s, n, <<"-", "I", "n", "f", "i", "n", "i", "t", "y">>)
       THEN Ok(PyFloat(SubSeq(s, n, n + 8)), n + 9)
       ELSE Fail

\* json.loads(s): JSONDecoder.decode, which rejects data after the value.
json_loads(s) ==
    LET obj == scan_once(s, SkipWs(s, 1))
    IN IF obj.ok /\ SkipWs(s, obj.end) = Len(s) + 1
       THEN [ok |-> TRUE, val |-> obj.val]
       ELSE Fail

-----------------------------------------------------------------------------
(* The str methods and conversions the program uses. *)

\* str.rfind(c): the 0-based index of the last c, or -1.
RECURSIVE rfind(_, _)
rfind(s, c) ==
    IF s = <<>> THEN -1
    ELSE IF s[Len(s)] = c THEN Len(s) - 1 ELSE rfind(SubSeq(s, 1, Len(s) - 1), c)

\* str.find(c) of a one-character c: the 0-based index of the first c, or -1.
RECURSIVE FindFrom(_, _, _)
FindFrom(s, c, n) ==
    IF n > Len(s) THEN -1 ELSE IF s[n] = c THEN n - 1 ELSE FindFrom(s, c, n + 1)
find(s, c) == FindFrom(s, c, 1)

\* s[a:b] for 0 <= a and 0 <= b.
Slice(s, a, b) == SubSeq(s, a + 1, IF b > Len(s) THEN Len(s) ELSE b)

\* str.replace(old, new) of one-character old and new.
RECURSIVE replace(_, _, _)
replace(s, old, new) ==
    IF s = <<>> THEN <<>>
    ELSE <<IF Head(s) = old THEN new ELSE Head(s)>> \o replace(Tail(s), old, new)

\* str.strip(): without the leading and the trailing whitespace.
RECURSIVE lstrip(_), rstrip(_)
lstrip(s) == IF s # <<>> /\ Head(s) \in Whitespace THEN lstrip(Tail(s)) ELSE s
rstrip(s) ==
    IF s # <<>> /\ s[Len(s)] \in Whitespace THEN rstrip(SubSeq(s, 1, Len(s) - 1)) ELSE s
strip(s) == rstrip(lstrip(s))

\* sep.join(strs)
RECURSIVE join(_, _)
join(sep, strs) ==
    IF strs = <<>> THEN <<>>
    ELSE IF Len(strs) = 1 THEN strs[1]
    ELSE strs[1] \o sep \o join(sep, Tail(strs))

\* str(n) of an int.
RECURSIVE NatToStr(_)
NatToStr(n) ==
    IF n < 10 THEN <<HexChars[n + 1]>> ELSE NatToStr(n \div 10) \o <<HexChars[(n % 10) + 1]>>
IntToStr(n) == IF n < 0 THEN <<"-">> \o NatToStr(-n) ELSE NatToStr(n)

\* The code points repr() escapes as not printable, among those of the model.
NonPrintableCode ==
    (0..31) \cup (127..160) \cup {173, 5760} \cup (8192..8202)
        \cup {8232, 8233, 8239, 8287, 12288}
NonPrintable == {Chr(c) : c \in NonPrintableCode}

\* repr() of one character inside quotes of kind q.
ReprChar(c, q) ==
    IF c = q \/ c = "\\" THEN <<"\\", c>>
    ELSE IF c = "\t" THEN <<"\\", "t">>
    ELSE IF c = "\n" THEN <<"\\", "n">>
    ELSE IF c = "\r" THEN <<"\\", "r">>
    ELSE IF c \in NonPrintable THEN
        LET code == CHOOSE n \in NonPrintableCode : Chr(n) = c
        IN IF code < 256
           THEN <<"\\", "x", HexChars[(code \div 16) + 1], HexChars[(code % 16) + 1]>>
           ELSE <<"\\", "u", HexChars[(code \div 4096) + 1], HexChars[((code \div 256) % 16) + 1],
                  HexChars[((code \div 16) % 16) + 1], HexChars[(code % 16) + 1]>>
    ELSE <<c>>

RECURSIVE ReprChars(_, _)
ReprChars(s, q) == IF s = <<>> THEN <<>> ELSE ReprChar(Head(s), q) \o ReprChars(Tail(s), q)

\* repr(s) of a str: double quotes only when s holds ' and no ".
ReprStr(s) ==
    LET q == IF (\E n \in 1..Len(s) : s[n] = "'") /\ ~(\E n \in 1..Len(s) : s[n] = "\"")
             THEN "\"" ELSE "'"
    IN <<q>> \o ReprChars(s, q) \o <<q>>

\* str(v) and repr(v) of a value.  A float prints as the literal it was read
\* from (Python prints the shortest literal that reads back as the same float).
RECURSIVE str(_), repr(_), ReprItems(_), ReprPairs(_)
str(v) ==
    CASE v.t = "str" -> v.s
      [] v.t = "int" -> IntToStr(v.n)
      [] v.t = "bool" -> IF v.b THEN <<"T", "r", "u", "e">> ELSE <<"F", "a", "l", "s", "e">>
      [] v.t = "none" -> <<"N", "o", "n", "e">>
      [] v.t = "float" -> v.lit
      [] v.t = "list" -> <<"[">> \o join(<<",", " ">>, ReprItems(v.items)) \o <<"]">>
      [] v.t = "dict" -> <<"{">> \o join(<<",", " ">>, ReprPairs(v.pairs)) \o <<"}">>
repr(v) == IF v.t = "str" THEN ReprStr(v.s) ELSE str(v)
ReprItems(items) ==
    IF items = <<>> THEN <<>> ELSE <<repr(Head(items))>> \o ReprItems(Tail(items))
ReprPairs(pairs) ==
    IF pairs = <<>> THEN <<>>
    ELSE <<ReprStr(Head(pairs).k) \o <<":", " ">> \o repr(Head(pairs).v)>> \o ReprPairs(Tail(pairs))

\* [str(x) for x in v]
RECURSIVE StrEach(_)
StrEach(items) == IF items = <<>> THEN <<>> ELSE <<str(Head(items))>> \o StrEach(Tail(items))

-----------------------------------------------------------------------------
(* The configuration of the program. *)

\* The keys of make_prompt's schema, in its order.
schema_keys ==
    <<
       \* "transaction_type"
       <<"t", "r", "a", "n", "s", "a", "c", "t", "i", "o", "n", "_", "t", "y", "p", "e">>,
       \* "transaction_attribute"
       <<"t", "r", "a", "n", "s", "a", "c", "t", "i", "o", "n", "_", "a", "t", "t", "r", "i", "b", "u", "t", "e">>,
       \* "effective_date"
       <<"e", "f", "f", "e", "c", "t", "i", "v", "e", "_", "d", "a", "t", "e">>,
       \* "term_date"
       <<"t", "e", "r", "m", "_", "d", "a", "t", "e">>,
       \* "term_reason"
       <<"t", "e", "r", "m", "_", "r", "e", "a", "s", "o", "n">>,
       \* "provider_name"
       <<"p", "r", "o", "v", "i", "d", "e", "r", "_", "n", "a", "m", "e">>,
       \* "provider_npi"
       <<"p", "r", "o", "v", "i", "d", "e", "r", "_", "n", "p", "i">>,
       \* "provider_specialty"
       <<"p", "r", "o", "v", "i", "d", "e", "r", "_", "s", "p", "e", "c", "i", "a", "l", "t", "y">>,
       \* "state_license"
       <<"s", "t", "a", "t", "e", "_", "l", "i", "c", "e", "n", "s", "e">>,
       \* "organization_name"
       <<"o", "r", "g", "a", "n", "i", "z", "a", "t", "i", "o", "n", "_", "n", "a", "m", "e">>,
       \* "tin"
       <<"t", "i", "n">>,
       \* "group_npi"
       <<"g", "r", "o", "u", "p", "_", "n", "p", "i">>,
       \* "complete_address"
       <<"c", "o", "m", "p", "l", "e", "t", "e", "_", "a", "d", "d", "r", "e", "s", "s">>,
       \* "phone_number"
       <<"p", "h", "o", "n", "e", "_", "n", "u", "m", "b", "e", "r">>,
       \* "fax_number"
       <<"f", "a", "x", "_", "n", "u", "m", "b", "e", "r">>,
       \* "ppg_id"
       <<"p", "p", "g", "_", "i", "d">>,
       \* "line_of_business"
       <<"l", "i", "n", "e", "_", "o", "f", "_", "b", "u", "s", "i", "n", "e", "s", "s">>
    >>

\* TEMPLATE_TO_KEY: template header -> JSON key, as a dict's items.
TEMPLATE_TO_KEY ==
    PyDict(<<
       \* "Transaction Type (Add/Update/Term)": "transaction_type"
       [k |-> <<"T", "r", "a", "n", "s", "a", "c", "t", "i", "o", "n", " ", "T", "y", "p", "e", " ", "(", "A", "d", "d", "/", "U", "p", "d", "a", "t", "e", "/", "T", "e", "r", "m", ")">>,
        v |-> PyStr(<<"t", "r", "a", "n", "s", "a", "c", "t", "i", "o", "n", "_", "t", "y", "p", "e">>)],
       \* "Transaction Attribute": "transaction_attribute"
       [k |-> <<"T", "r", "a", "n", "s", "a", "c", "t", "i", "o", "n", " ", "A", "t", "t", "r", "i", "b", "u", "t", "e">>,
        v |-> PyStr(<<"t", "r", "a", "n", "s", "a", "c", "t", "i", "o", "n", "_", "a", "t", "t", "r", "i", "b", "u", "t", "e">>)],
       \* "Effective Date": "effective_date"
       [k |-> <<"E", "f", "f", "e", "c", "t", "i", "v", "e", " ", "D", "a", "t", "e">>,
        v |-> PyStr(<<"e", "f", "f", "e", "c", "t", "i", "v", "e", "_", "d", "a", "t", "e">>)],
       \* "Term Date": "term_date"
       [k |-> <<"T", "e", "r", "m", " ", "D", "a", "t", "e">>,
        v |-> PyStr(<<"t", "e", "r", "m", "_", "d", "a", "t", "e">>)],
       \* "Term Reason": "term_reason"
       [k |-> <<"T", "e", "r", "m", " ", "R", "e", "a", "s", "o", "n">>,
        v |-> PyStr(<<"t", "e", "r", "m", "_", "r", "e", "a", "s", "o", "n">>)],
       \* "Provider Name": "provider_name"
       [k |-> <<"P", "r", "o", "v", "i", "d", "e", "r", " ", "N", "a", "m", "e">>,
        v |-> PyStr(<<"p", "r", "o", "v", "i", "d", "e", "r", "_", "n", "a", "m", "e">>)],
       \* "Provider NPI": "provider_npi"
       [k |-> <<"P", "r", "o", "v", "i", "d", "e", "r", " ", "N", "P", "I">>,
        v |-> PyStr(<<"p", "r", "o", "v", "i", "d", "e", "r", "_", "n", "p", "i">>)],
       \* "Provider Specialty": "provider_specialty"
       [k |-> <<"P", "r", "o", "v", "i", "d", "e", "r", " ", "S", "p", "e", "c", "i", "a", "l", "t", "y">>,
        v |-> PyStr(<<"p", "r", "o", "v", "i", "d", "e", "r", "_", "s", "p", "e", "c", "i", "a", "l", "t", "y">>)],
       \* "State License": "state_license"
       [k |-> <<"S", "t", "a", "t", "e", " ", "L", "i", "c", "e", "n", "s", "e">>,
        v |-> PyStr(<<"s", "t", "a", "t", "e", "_", "l", "i", "c", "e", "n", "s", "e">>)],
       \* "Organization Name": "organization_name"
       [k |-> <<"O", "r", "g", "a", "n", "i", "z", "a", "t", "i", "o", "n", " ", "N", "a", "m", "e">>,
        v |-> PyStr(<<"o", "r", "g", "a", "n", "i", "z", "a", "t", "i", "o", "n", "_", "n", "a", "m", "e">>)],
       \* "TIN": "tin"
       [k |-> <<"T", "I", "N">>,
        v |-> PyStr(<<"t", "i", "n">>)],
       \* "Group NPI": "group_npi"
       [k |-> <<"G", "r", "o", "u", "p", " ", "N", "P", "I">>,
        v |-> PyStr(<<"g", "r", "o", "u", "p", "_", "n", "p", "i">>)],
       \* "Complete Address": "complete_address"
       [k |-> <<"C", "o", "m", "p", "l", "e", "t", "e", " ", "A", "d", "d", "r", "e", "s", "s">>,
        v |-> PyStr(<<"c", "o", "m", "p", "l", "e", "t", "e", "_", "a", "d", "d", "r", "e", "s", "s">>)],
       \* "Phone Number": "phone_number"
       [k |-> <<"P", "h", "o", "n", "e", " ", "N", "u", "m", "b", "e", "r">>,
        v |-> PyStr(<<"p", "h", "o", "n", "e", "_", "n", "u", "m", "b", "e", "r">>)],
       \* "Fax Number": "fax_number"
       [k |-> <<"F", "a", "x", " ", "N", "u", "m", "b", "e", "r">>,
        v |-> PyStr(<<"f", "a", "x", "_", "n", "u", "m", "b", "e", "r">>)],
       \* "PPG ID": "ppg_id"
       [k |-> <<"P", "P", "G", " ", "I", "D">>,
        v |-> PyStr(<<"p", "p", "g", "_", "i", "d">>)],
       \* "Line Of Business (Medicare/Commercial/Medical)": "line_of_business"
       [k |-> <<"L", "i", "n", "e", " ", "O", "f", " ", "B", "u", "s", "i", "n", "e", "s", "s", " ", "(", "M", "e", "d", "i", "c", "a", "r", "e", "/", "C", "o", "m", "m", "e", "r", "c", "i", "a", "l", "/", "M", "e", "d", "i", "c", "a", "l", ")">>,
        v |-> PyStr(<<"l", "i", "n", "e", "_", "o", "f", "_", "b", "u", "s", "i", "n", "e", "s", "s">>)]
    >>)

\* "Information not found"
SENTINEL == <<"I", "n", "f", "o", "r", "m", "a", "t", "i", "o", "n", " ", "n", "o", "t", " ", "f", "o", "u", "n", "d">>

-----------------------------------------------------------------------------
(* extract_with_llm, from the generated text on. *)

\* How a call ends: it returns a value, or an exception leaves it.
Returned(v) == [raised |-> FALSE, val |-> v]
Raised == [raised |-> TRUE]

\* A variant that gives None where the text holds no usable object.
extract_with_llm_none(generated_text) ==
    LET s == find(generated_text, "{")
        e == find(generated_text, "}")
        raw == Slice(generated_text, s, e + 1)
        data == json_loads(raw)
        again == json_loads(replace(raw, "'", "\""))
    IN IF s = -1 \/ e = -1 \/ e <= s THEN Returned(PyNone)
       ELSE IF data.ok THEN Returned(data.val)
       ELSE IF again.ok THEN Returned(again.val)
       ELSE Returned(PyNone)

\* A variant whose second parse is not guarded: its failure leaves the call.
extract_with_llm_unguarded(generated_text) ==
    LET s == find(generated_text, "{")
        e == find(generated_text, "}")
        raw == Slice(generated_text, s, e + 1)
        data == json_loads(raw)
        again == json_loads(replace(raw, "'", "\""))
    IN IF s = -1 \/ e = -1 \/ e <= s THEN Returned(EmptyDict)
       ELSE IF data.ok
       THEN Returned(IF isinstance_dict(data.val) THEN data.val ELSE EmptyDict)
       ELSE IF again.ok THEN Returned(again.val)
       ELSE Raised

extract_with_llm(generated_text) ==
    LET s == find(generated_text, "{")
        e == find(generated_text, "}")
        raw == Slice(generated_text, s, e + 1)
        data == json_loads(raw)
        fixed == replace(raw, "'", "\"")
        again == json_loads(fixed)
    IN IF s = -1 \/ e = -1 \/ e <= s THEN Returned(EmptyDict)
       ELSE IF data.ok
       THEN Returned(IF isinstance_dict(data.val) THEN data.val ELSE EmptyDict)
       ELSE IF again.ok THEN Returned(again.val)
       ELSE Returned(EmptyDict)

-----------------------------------------------------------------------------
(* The body of process_eml_files' loop. *)

\* set(TEMPLATE_TO_KEY.values())
TemplateKeys == {TEMPLATE_TO_KEY.pairs[n].v.s : n \in 1..Len(TEMPLATE_TO_KEY.pairs)}

\* A variant that does not trim the stringified value.
NormalizeValue_untrimmed(v) ==
    IF v.t = "none" \/ (isinstance_str(v) /\ strip(v.s) = <<>>) THEN SENTINEL
    ELSE IF isinstance_list(v) THEN join(<<",", " ">>, StrEach(v.items))
    ELSE str(v)

\* final[k] for the value v = extracted.get(k)
NormalizeValue(v) ==
    IF v.t = "none" \/ (isinstance_str(v) /\ strip(v.s) = <<>>) THEN SENTINEL
    ELSE IF isinstance_list(v) THEN join(<<",", " ">>, StrEach(v.items))
    ELSE strip(str(v))

\* final, the dict the loop over the keys fills.
Normalize(record) ==
    [k \in TemplateKeys |->
        NormalizeValue(IF isinstance_dict(record) THEN DictGet(record, k) ELSE PyNone)]

\* keys_in_order = [TEMPLATE_TO_KEY.get(h, None) for h in headers]
keys_in_order(headers) == [n \in 1..Len(headers) |-> DictGet(TEMPLATE_TO_KEY, headers[n])]

\* A variant that leaves out the headers that map to no key.
BuildRow_known(keys, record) ==
    LET known == SelectSeq(keys, LAMBDA key : key.t # "none")
    IN [n \in 1..Len(known) |-> record[known[n].s]]

\* row, built in template order.
BuildRow(keys, record) ==
    [n \in 1..Len(keys) |->
        IF keys[n].t = "none" THEN SENTINEL
        ELSE IF keys[n].s \in DOMAIN record THEN record[keys[n].s] ELSE SENTINEL]

-----------------------------------------------------------------------------
(* The collaborators: the email files, the model pipeline, the workbooks. *)

\* Bounds of the runs checked.
MaxEmails == 3
MaxBatch == 2
MaxNegBatch == 1

\* make_prompt(email_text): the text around the email is fixed, so the prompt
\* is given by the schema it serializes and the email text it quotes.
make_prompt(text) == [schema |-> schema_keys, email |-> text]

\* The pipeline is deterministic (do_sample=False): a fixed table from the
\* email text of the prompt to the generated text.
GeneratedText ==
    <<
       \* "m1" -> {"tin": "123", "provider_name": "Jane Doe"} (a well-formed object)
       [k |-> <<"m", "1">>,
        v |-> <<"{", "\"", "t", "i", "n", "\"", ":", " ", "\"", "1", "2", "3", "\"", ",", " ", "\"", "p", "r", "o", "v", "i", "d", "e", "r", "_", "n", "a", "m", "e", "\"", ":", " ", "\"", "J", "a", "n", "e", " ", "D", "o", "e", "\"", "}">>],
       \* "" -> I see no email. (an email without text; no brace span)
       [k |-> <<>>,
        v |-> <<"I", " ", "s", "e", "e", " ", "n", "o", " ", "e", "m", "a", "i", "l", ".">>],
       \* "m3" -> {'tin': '45'} (single quotes: parsed by the repair pass)
       [k |-> <<"m", "3">>,
        v |-> <<"{", "'", "t", "i", "n", "'", ":", " ", "'", "4", "5", "'", "}">>],
       \* "m4" -> Sure: {"tin": {"a": 1}} (a nested object: the span is cut at the first })
       [k |-> <<"m", "4">>,
        v |-> <<"S", "u", "r", "e", ":", " ", "{", "\"", "t", "i", "n", "\"", ":", " ", "{", "\"", "a", "\"", ":", " ", "1", "}", "}">>]
    >>
EmailTexts == {GeneratedText[n].k : n \in 1..Len(GeneratedText)}
pipe(prompt) ==
    GeneratedText[CHOOSE n \in 1..Len(GeneratedText) : GeneratedText[n].k = prompt.email].v

\* An email file: its path (the position in the sorted listing), whether it
\* can be opened, and the text load_eml_text extracts from it.
EmlKinds ==
    {[readable |-> TRUE, text |-> text] : text \in EmailTexts}
        \cup {[readable |-> FALSE, text |-> <<>>]}
EmlFile(path, kind) == [path |-> path, readable |-> kind.readable, text |-> kind.text]
EmlPathSeqs(max) ==
    UNION {{[n \in 1..len |-> EmlFile(n, kinds[n])] : kinds \in [1..len -> EmlKinds]} :
           len \in 0..max}

\* A variant that gives the empty text for a file that cannot be read.
load_eml_text_lenient(eml) == Returned(eml.text)

\* load_eml_text(path): open() raises for a file that cannot be read.
load_eml_text(eml) == IF eml.readable THEN Returned(eml.text) ELSE Raised

\* The values of --batch: argparse takes any int.
BatchArgs == (-MaxNegBatch)..MaxBatch

\* The header rows of the templates checked.
Templates ==
    {
       \* ["Provider Name", "Unknown Col", "TIN"]
       <<<<"P", "r", "o", "v", "i", "d", "e", "r", " ", "N", "a", "m", "e">>,
         <<"U", "n", "k", "n", "o", "w", "n", " ", "C", "o", "l">>,
         <<"T", "I", "N">>>>,
       \* ["PPG ID", "TIN"]
       <<<<"P", "P", "G", " ", "I", "D">>,
         <<"T", "I", "N">>>>
    }

\* A worksheet is a function from row numbers to rows of cell values; a
\* workbook file is absent or holds its active worksheet.
NoFile == [exists |-> FALSE]
File(ws) == [exists |-> TRUE, ws |-> ws]

\* openpyxl.load_workbook(template_path).active: the header row is row 1.
TemplateSheet(headers) == 1 :> headers

\* Worksheet.max_row
max_row(ws) ==
    IF DOMAIN ws = {} THEN 1 ELSE CHOOSE r \in DOMAIN ws : \A q \in DOMAIN ws : q <= r

\* Worksheet.delete_rows(idx), amount = 1: the rows from idx + 1 on move up by
\* one (onto row idx, also when idx is 0), then the rows left over are deleted.
delete_rows(ws, idx) ==
    LET before == max_row(ws)
        lo == IF before > idx THEN before ELSE idx
        hi == IF idx + 1 < before THEN idx + 1 ELSE before
        gutter == lo..hi
        from == {r \in DOMAIN ws : r >= idx + 1}
        moved == [r \in {q \in DOMAIN ws : q < idx + 1} \cup {q - 1 : q \in from} |->
                     IF r + 1 \in from THEN ws[r + 1] ELSE ws[r]]
    IN [r \in DOMAIN moved \ gutter |-> moved[r]]

\* Worksheet.append(row_values) after delete_rows set _current_row.
ws_append(ws, row_values) ==
    LET current_row == IF DOMAIN ws = {} THEN 0 ELSE max_row(ws)
    IN (current_row + 1 :> row_values) @@ ws

\* append_row_to_template: the worksheet it saves at out_path.
append_row_to_template(headers, row_values) ==
    ws_append(delete_rows(TemplateSheet(headers), 0), row_values)

\* The rows of a worksheet in row order.
RECURSIVE RowsFrom(_, _)
RowsFrom(ws, rows) ==
    IF rows = {} THEN <<>>
    ELSE LET r == CHOOSE q \in rows : \A p \in rows : q <= p
         IN <<ws[r]>> \o RowsFrom(ws, rows \ {r})
Rows(ws) == RowsFrom(ws, DOMAIN ws)

\* A variant that takes the end of the slice as inclusive.
BatchFiles_inclusive(paths, start, size) == Slice(paths, start, start + size + 1)

\* eml_paths[i:i + args.batch]
BatchFiles(paths, start, size) == Slice(paths, start, start + size)

\* Whether range(0, stop, step) yields the index n it has come to.
InRange(n, stop, step) == IF step > 0 THEN n < stop ELSE n > stop

-----------------------------------------------------------------------------
(* A run of main. *)

NoRecord == <<>>

InitRun ==
    /\ pc = "main"
    /\ eml_paths \in EmlPathSeqs(MaxEmails)
    /\ batch \in BatchArgs
    /\ template \in Templates
    /\ i = 0
    /\ batch_files = <<>>
    /\ j = 0
    /\ email_text = <<>>
    /\ extracted = EmptyDict
    /\ final = NoRecord
    /\ row = <<>>
    /\ out_file = NoFile
    /\ appends = <<>>
    /\ began = <<>>
    /\ out = <<>>
    /\ interp = Returned(EmptyDict)
    /\ phase = "run"

\* main, to the batch loop: no email ends the run (SystemExit), and a batch
\* of 0 is a range() step of 0 (ValueError).
Main ==
    /\ pc = "main"
    /\ pc' = IF eml_paths = <<>> THEN "exit" ELSE IF batch = 0 THEN "error" ELSE "for_batch"
    /\ i' = 0
    /\ UNCHANGED <<eml_paths, batch, template, batch_files, j, email_text, extracted,
                   final, row, out_file, appends, began, out, interp, phase>>

\* The batch loop yields a batch: process_eml_files is called on it, reads
\* the template and saves a copy of it at out_path.
StartBatch ==
    /\ pc = "for_batch"
    /\ InRange(i, Len(eml_paths), batch)
    /\ batch_files' = BatchFiles(eml_paths, i, batch)
    /\ out_file' = File(TemplateSheet(template))
    /\ j' = 1
    /\ pc' = "for_eml"
    /\ UNCHANGED <<eml_paths, batch, template, i, email_text, extracted, final, row,
                   appends, began, out, interp, phase>>

\* The batch loop is exhausted: main prints and returns.
Finish ==
    /\ pc = "for_batch"
    /\ ~InRange(i, Len(eml_paths), batch)
    /\ pc' = "done"
    /\ UNCHANGED <<eml_paths, batch, template, i, batch_files, j, email_text, extracted,
                   final, row, out_file, appends, began, out, interp, phase>>

\* email_text = load_eml_text(eml_path); an exception leaves main.
LoadEml ==
    /\ pc = "for_eml"
    /\ j <= Len(batch_files)
    /\ began' = Append(began, batch_files[j].path)
    /\ LET loaded == load_eml_text(batch_files[j])
       IN IF loaded.raised
          THEN pc' = "error" /\ UNCHANGED email_text
          ELSE pc' = "extract" /\ email_text' = loaded.val
    /\ UNCHANGED <<eml_paths, batch, template, i, batch_files, j, extracted, final, row,
                   out_file, appends, out, interp, phase>>

\* extracted = extract_with_llm(pipe, email_text)
Extract ==
    /\ pc = "extract"
    /\ LET result == extract_with_llm(pipe(make_prompt(email_text)))
       IN IF result.raised
          THEN pc' = "error" /\ UNCHANGED extracted
          ELSE pc' = "normalize" /\ extracted' = result.val
    /\ UNCHANGED <<eml_paths, batch, template, i, batch_files, j, email_text, final, row,
                   out_file, appends, began, out, interp, phase>>

\* final and row are built.
NormalizeAndMap ==
    /\ pc = "normalize"
    /\ final' = Normalize(extracted)
    /\ row' = BuildRow(keys_in_order(template), Normalize(extracted))
    /\ pc' = "append"
    /\ UNCHANGED <<eml_paths, batch, template, i, batch_files, j, email_text, extracted,
                   out_file, appends, began, out, interp, phase>>

\* append_row_to_template(template_path, out_path, row)
AppendRow ==
    /\ pc = "append"
    /\ out_file' = File(append_row_to_template(template, row))
    /\ appends' = Append(appends, [path |-> batch_files[j].path, row |-> row])
    /\ j' = j + 1
    /\ pc' = "for_eml"
    /\ UNCHANGED <<eml_paths, batch, template, i, batch_files, email_text, extracted,
                   final, row, began, out, interp, phase>>

\* process_eml_files returns; the batch loop steps.
EndBatch ==
    /\ pc = "for_eml"
    /\ j > Len(batch_files)
    /\ i' = i + batch
    /\ pc' = "for_batch"
    /\ UNCHANGED <<eml_paths, batch, template, batch_files, j, email_text, extracted,
                   final, row, out_file, appends, began, out, interp, phase>>

Next == Main \/ StartBatch \/ Finish \/ LoadEml \/ Extract \/ NormalizeAndMap
            \/ AppendRow \/ EndBatch

Spec == InitRun /\ [][Next]_vars

-----------------------------------------------------------------------------
(* Properties of a run. *)

AllReadable == \A n \in 1..Len(eml_paths) : eml_paths[n].readable
Terminal == pc \in {"done", "error", "exit"}

\* The row the loop body computes for an email file.
RowOf(eml) ==
    BuildRow(keys_in_order(template),
             Normalize(extract_with_llm(pipe(make_prompt(eml.text))).val))

SentinelRow == [n \in 1..Len(template) |-> SENTINEL]

\* The rows of the first n calls of append_row_to_template.
AppendedRows(n) == [m \in 1..n |-> appends[m].row]

\* A generated text with no usable structured content: no brace span, or a
\* span that neither parses nor parses after the quote repair, or one that
\* parses to something that is no mapping.
Unusable(text) ==
    LET opens == {n \in 1..Len(text) : text[n] = "{"}
        closes == {n \in 1..Len(text) : text[n] = "}"}
        first(set) == CHOOSE n \in set : \A m \in set : n <= m
        span == SubSeq(text, first(opens), first(closes))
    IN \/ opens = {}
       \/ closes = {}
       \/ first(closes) < first(opens)
       \/ ~json_loads(span).ok /\ ~json_loads(replace(span, "'", "\"")).ok
       \/ json_loads(span).ok /\ ~isinstance_dict(json_loads(span).val)

\* C1 (as claimed): after the row of the k-th email is appended, the output
\* workbook holds the header row and then the rows of the emails 1..k, in order.
C1_AppendKeepsPriorRows ==
    (pc = "for_eml" /\ j > 1) =>
        /\ out_file.exists
        /\ Rows(out_file.ws) = <<template>> \o AppendedRows(Len(appends))

\* C2: the n-th call of append_row_to_template carries the row of the n-th
\* email; the emails are begun in order, each only after the append of the one
\* before it; and a run over readable emails with a batch size of at least 1
\* ends with one append per email.
C2_BatchOrdering ==
    /\ \A n \in 1..Len(appends) :
          /\ appends[n].path = n
          /\ appends[n].row = RowOf(eml_paths[n])
    /\ \A n \in 1..Len(began) : began[n] = n
    /\ Len(began) \in {Len(appends), Len(appends) + 1}
    /\ pc \in {"extract", "normalize", "append"} => Len(began) = Len(appends) + 1
    /\ pc \in {"for_batch", "for_eml", "done"} => Len(began) = Len(appends)
    /\ (pc = "done" /\ batch >= 1 /\ AllReadable) => Len(appends) = Len(eml_paths)

\* C2's case: three readable emails in batches of two, all appended.
C2_Witness ==
    /\ pc = "done" /\ batch = 2 /\ Len(eml_paths) = 3 /\ AllReadable
    /\ Len(appends) = 3
    /\ appends[1].row # appends[2].row

\* C3 (as claimed): an email that cannot be read is skipped, and every later
\* (readable) email still has its row appended.
C3_UnreadableIsSkipped ==
    (Terminal /\ batch >= 1) =>
        \A n \in 1..Len(eml_paths) :
            eml_paths[n].readable => \E m \in 1..Len(appends) : appends[m].path = n

\* C3 (amended): an email that cannot be read ends the run: the emails before
\* it have been appended, and neither it nor any later email is.
C3_UnreadableEndsRun ==
    /\ \A m \in 1..Len(appends) : \A n \in 1..appends[m].path : eml_paths[n].readable
    /\ \A n \in 1..Len(began) : \A m \in 1..(n - 1) : eml_paths[began[m]].readable
    /\ (pc = "error" /\ batch # 0) =>
          /\ ~eml_paths[began[Len(began)]].readable
          /\ Len(appends) = Len(began) - 1
    /\ (pc \in {"extract", "normalize", "append"}) => eml_paths[began[Len(began)]].readable
    /\ (pc = "done" /\ batch >= 1) => AllReadable

\* C3's case: the second of three emails cannot be read, the third can.
C3_Witness ==
    /\ pc = "error" /\ batch = 1 /\ Len(eml_paths) = 3
    /\ eml_paths[1].readable /\ ~eml_paths[2].readable /\ eml_paths[3].readable
    /\ Len(appends) = 1 /\ began = <<1, 2>>

\* C5: an email whose generated text has no usable structured content gets a
\* record of sentinels and a row of sentinels, appended like any other; the
\* run does not end in an error on it, and a finished run has appended every
\* email.
C5_UnusableGivesSentinelRow ==
    /\ \A m \in 1..Len(appends) :
          Unusable(pipe(make_prompt(eml_paths[appends[m].path].text)))
              => appends[m].row = SentinelRow
    /\ (pc = "append" /\ Unusable(pipe(make_prompt(email_text)))) =>
          /\ extracted = EmptyDict
          /\ \A k \in DOMAIN final : final[k] = SENTINEL
          /\ row = SentinelRow
    /\ (pc = "error" /\ began # <<>>) =>
          ~(/\ eml_paths[began[Len(began)]].readable
            /\ Unusable(pipe(make_prompt(eml_paths[began[Len(began)]].text))))
    /\ (pc = "done" /\ batch >= 1) =>
          \A n \in 1..Len(eml_paths) : \E m \in 1..Len(appends) : appends[m].path = n

\* C5's case: an unusable generated text between two usable ones.
C5_Witness ==
    /\ pc = "done" /\ Len(appends) = 3
    /\ Unusable(pipe(make_prompt(eml_paths[2].text)))
    /\ appends[2].row = SentinelRow
    /\ appends[1].row # SentinelRow
    /\ appends[3].row # SentinelRow

\* What a run with a batch size of 1 leaves at out_path (the last row written).
Batch1Output ==
    File(append_row_to_template(template, RowOf(eml_paths[Len(eml_paths)])))

\* A run with a batch size of 1 over readable emails: all begun, in order.
Batch1Reference ==
    (pc = "done" /\ batch = 1 /\ AllReadable) =>
        /\ began = [n \in 1..Len(eml_paths) |-> n]
        /\ out_file = Batch1Output

\* C6 (as claimed): whatever the batch size, a run processes the emails a run
\* with a batch size of 1 does, in that order, and leaves the same output.
C6_BatchSizeOnlyGroups ==
    (Terminal /\ eml_paths # <<>> /\ AllReadable) =>
        /\ began = [n \in 1..Len(eml_paths) |-> n]
        /\ out_file = Batch1Output

-----------------------------------------------------------------------------
(* The interpreter on its own: extract_with_llm applied to a generated text. *)

\* Bound: the number of fragments a generated text is put together from.
MaxFrags == 4

\* The fragments: {   }   "t": 1   't': 1   "t":    {"d": 2}   x   "   ,
Fragments ==
    {<<"{">>,
     <<"}">>,
     <<"\"", "t", "\"", ":", " ", "1">>,
     <<"'", "t", "'", ":", " ", "1">>,
     <<"\"", "t", "\"", ":", " ">>,
     <<"{", "\"", "d", "\"", ":", " ", "2", "}">>,
     <<"x">>,
     <<"\"">>,
     <<",">>}

\* no json here
NoJsonText == <<"n", "o", " ", "j", "s", "o", "n", " ", "h", "e", "r", "e">>
\* {'a': 1}
SingleQuoteText == <<"{", "'", "a", "'", ":", " ", "1", "}">>
\* x {"t": 1} y {"d": 2}
TwoObjectsText == <<"x", " ", "{", "\"", "t", "\"", ":", " ", "1", "}", " ", "y", " ", "{", "\"", "d", "\"", ":", " ", "2", "}">>
\* {"t": {"a": 1}}
NestedText == <<"{", "\"", "t", "\"", ":", " ", "{", "\"", "a", "\"", ":", " ", "1", "}", "}">>
\* } then {"t": 1}
CloseFirstText == <<"}", " ", "t", "h", "e", "n", " ", "{", "\"", "t", "\"", ":", " ", "1", "}">>

\* Texts written out, beside the ones put together from fragments.
WrittenTexts ==
    {NoJsonText,
     \* 
     <<>>,
     \* {"a": 1}
     <<"{", "\"", "a", "\"", ":", " ", "1", "}">>,
     SingleQuoteText,
     TwoObjectsText,
     NestedText,
     CloseFirstText,
     \* {"t": "}"}
     <<"{", "\"", "t", "\"", ":", " ", "\"", "}", "\"", "}">>,
     \* {"t": [1, "a"], "d": null}
     <<"{", "\"", "t", "\"", ":", " ", "[", "1", ",", " ", "\"", "a", "\"", "]", ",", " ", "\"", "d", "\"", ":", " ", "n", "u", "l", "l", "}">>,
     \* {"t": "it's"}
     <<"{", "\"", "t", "\"", ":", " ", "\"", "i", "t", "'", "s", "\"", "}">>,
     \* {"t": 'it"s'}
     <<"{", "\"", "t", "\"", ":", " ", "'", "i", "t", "\"", "s", "'", "}">>,
     \* {"t": "1\n2"}
     <<"{", "\"", "t", "\"", ":", " ", "\"", "1", "\\", "n", "2", "\"", "}">>,
     \* [1, 2]
     <<"[", "1", ",", " ", "2", "]">>}

RECURSIVE Concat(_)
Concat(parts) == IF parts = <<>> THEN <<>> ELSE Head(parts) \o Concat(Tail(parts))

GeneratedTexts(max) ==
    WrittenTexts \cup
    UNION {{Concat(parts) : parts \in [1..len -> Fragments]} : len \in 0..max}

InitInterp ==
    /\ out \in GeneratedTexts(MaxFrags)
    /\ interp = Returned(EmptyDict)
    /\ phase = "generated"
    /\ pc = "idle" /\ eml_paths = <<>> /\ batch = 1 /\ template = <<>> /\ i = 0
    /\ batch_files = <<>> /\ j = 0 /\ email_text = <<>> /\ extracted = EmptyDict
    /\ final = NoRecord /\ row = <<>> /\ out_file = NoFile /\ appends = <<>>
    /\ began = <<>>

\* extract_with_llm, from the generated text on.
Interpret ==
    /\ phase = "generated"
    /\ interp' = extract_with_llm(out)
    /\ phase' = "interpreted"
    /\ UNCHANGED <<pc, eml_paths, batch, template, i, batch_files, j, email_text,
                   extracted, final, row, out_file, appends, began, out>>

NextInterp == Interpret

SpecInterp == InitInterp /\ [][NextInterp]_vars

\* The positions of a character in a text, and the least of a set of them.
Positions(text, c) == {n \in 1..Len(text) : text[n] = c}
Least(set) == CHOOSE n \in set : \A m \in set : n <= m

\* The text from the first { to the first }, when they are in that order.
HasSpan(text) ==
    /\ Positions(text, "{") # {}
    /\ Positions(text, "}") # {}
    /\ Least(Positions(text, "{")) < Least(Positions(text, "}"))
Span(text) == SubSeq(text, Least(Positions(text, "{")), Least(Positions(text, "}")))

\* A span (free of backslashes) with a second { that is in no string, neither
\* as written nor with its single quotes made double quotes.
NestedOpen(span) ==
    /\ Positions(span, "\\") = {}
    /\ \E n \in Positions(span, "{") \ {1} :
          /\ Cardinality({m \in 1..(n - 1) : span[m] = "\""}) % 2 = 0
          /\ Cardinality({m \in 1..(n - 1) : span[m] \in {"\"", "'"}}) % 2 = 0

\* C7: the interpreter returns, and returns a mapping: the parsed span when
\* the span parses, strictly or after the quote repair, and the empty mapping
\* otherwise.
C7_InterpreterTotal ==
    phase = "interpreted" =>
        /\ ~interp.raised
        /\ isinstance_dict(interp.val)
        /\ interp.val # EmptyDict =>
              /\ HasSpan(out)
              /\ \/ json_loads(Span(out)) = [ok |-> TRUE, val |-> interp.val]
                 \/ /\ ~json_loads(Span(out)).ok
                    /\ json_loads(replace(Span(out), "'", "\"")) = [ok |-> TRUE, val |-> interp.val]

\* C7's case: a span that parses only after the quote repair.
C7_Witness ==
    /\ phase = "interpreted"
    /\ out = SingleQuoteText
    /\ ~json_loads(Span(out)).ok
    /\ interp = Returned(PyDict(<<[k |-> <<"a">>, v |-> PyInt(1)]>>))

\* C10: only the text from the first { to the first } is parsed: without
\* such a span the result is empty, whatever follows; of two objects the
\* first is the result; an object holding a nested object gives the empty
\* result.
C10_FirstBraceSpan ==
    phase = "interpreted" =>
        /\ ~HasSpan(out) => interp = Returned(EmptyDict)
        /\ HasSpan(out) =>
              interp.val \in {EmptyDict} \cup
                  {r.val : r \in {q \in {json_loads(Span(out)),
                                         json_loads(replace(Span(out), "'", "\""))} : q.ok}}
        /\ (HasSpan(out) /\ json_loads(Span(out)).ok) => interp.val = json_loads(Span(out)).val
        /\ out = CloseFirstText => interp = Returned(EmptyDict)
        /\ out = TwoObjectsText =>
              interp = Returned(PyDict(<<[k |-> <<"t">>, v |-> PyInt(1)]>>))
        /\ out = NestedText => interp = Returned(EmptyDict)
        /\ (HasSpan(out) /\ NestedOpen(Span(out))) => interp = Returned(EmptyDict)

\* C10's case: two objects, the first of which is the result.
C10_Witness ==
    /\ phase = "interpreted"
    /\ out = TwoObjectsText
    /\ interp.val = PyDict(<<[k |-> <<"t">>, v |-> PyInt(1)]>>)

-----------------------------------------------------------------------------
(* The normaliser and the row mapper on their own: the loop body of        *)
(* process_eml_files applied to a candidate record and a header row.       *)

\* Bounds: the items of a candidate record, the headers of a template.
MaxPairs == 2
MaxHeaders == 3

\* tin, ppg_id (keys of the schema) and note (no key of the schema)
CandidateKeys == {<<"t", "i", "n">>, <<"p", "p", "g", "_", "i", "d">>, <<"n", "o", "t", "e">>}

\* The values a candidate record may hold.
CandidateValues ==
    {\* null
     PyNone,
     \* ""
     PyStr(<<>>),
     \* "  "
     PyStr(<<" ", " ">>),
     \* "A"
     PyStr(<<"A">>),
     \* " A "
     PyStr(<<" ", "A", " ">>),
     \* "A\nB"
     PyStr(<<"A", "\n", "B">>),
     \* "\n"
     PyStr(<<"\n">>),
     \* []
     PyList(<<>>),
     \* ["A", "B"]
     PyList(<<PyStr(<<"A">>), PyStr(<<"B">>)>>),
     \* ["A\nB"]
     PyList(<<PyStr(<<"A", "\n", "B">>)>>),
     \* [" A ", 7]
     PyList(<<PyStr(<<" ", "A", " ">>), PyInt(7)>>),
     \* [""]
     PyList(<<PyStr(<<>>)>>),
     \* 7
     PyInt(7),
     \* {"a": "x\ny"}
     PyDict(<<[k |-> <<"a">>, v |-> PyStr(<<"x", "\n", "y">>)]>>)}

RECURSIVE DictOf(_)
DictOf(items) ==
    IF items = <<>> THEN <<>>
    ELSE DictSet(DictOf(SubSeq(items, 1, Len(items) - 1)),
                 items[Len(items)].k, items[Len(items)].v)

CandidateRecords(max) ==
    UNION {{PyDict(DictOf(items)) :
                items \in [1..len -> [k : CandidateKeys, v : CandidateValues]]} :
           len \in 0..max}

InitNorm ==
    /\ extracted \in CandidateRecords(MaxPairs)
    /\ final = NoRecord
    /\ phase = "candidate"
    /\ template = <<>> /\ row = <<>>
    /\ pc = "idle" /\ eml_paths = <<>> /\ batch = 1 /\ i = 0 /\ batch_files = <<>>
    /\ j = 0 /\ email_text = <<>> /\ out_file = NoFile /\ appends = <<>>
    /\ began = <<>> /\ out = <<>> /\ interp = Returned(EmptyDict)

\* The loop over the keys that fills final.
NormalizeRecord ==
    /\ phase = "candidate"
    /\ final' = Normalize(extracted)
    /\ phase' = "normalized"
    /\ UNCHANGED <<pc, eml_paths, batch, template, i, batch_files, j, email_text,
                   extracted, row, out_file, appends, began, out, interp>>

NextNorm == NormalizeRecord

SpecNorm == InitNorm /\ [][NextNorm]_vars

SchemaKeySet == {schema_keys[n] : n \in 1..Len(schema_keys)}

\* C4 (as claimed): the normalised record has exactly the 17 keys of the
\* schema, and none of its values is the empty string.
C4_NormalizationTotal ==
    phase = "normalized" =>
        /\ DOMAIN final = SchemaKeySet
        /\ Cardinality(DOMAIN final) = 17
        /\ \A k \in DOMAIN final : final[k] # <<>>

\* C9 (as claimed): no normalised value holds a line break, and a list is
\* collapsed to its elements joined by ", ".
C9_SingleLine ==
    phase = "normalized" =>
        \A k \in DOMAIN final :
            /\ \A n \in 1..Len(final[k]) : final[k][n] \notin LineBreak
            /\ DictGet(extracted, k) = PyList(<<PyStr(<<"A">>), PyStr(<<"B">>)>>)
                   => final[k] = <<"A", ",", " ", "B">>

\* s is t without some whitespace at its ends.
IsTrimOf(s, t) ==
    \E a \in 0..Len(t) :
        /\ a + Len(s) <= Len(t)
        /\ SubSeq(t, a + 1, a + Len(s)) = s
        /\ \A n \in (1..a) \cup ((a + Len(s) + 1)..Len(t)) : t[n] \in Whitespace

\* C9 (amended): a value that is no list is stringified and trimmed: it is
\* not empty and neither starts nor ends with whitespace or a line break, and
\* a string keeps what is between its ends, line breaks included; a list is
\* collapsed to its elements, stringified as they are, joined by ", ".
C9_TrimmedOrJoined ==
    phase = "normalized" =>
        \A k \in DOMAIN final :
            LET v == DictGet(extracted, k)
            IN /\ v.t # "list" =>
                      /\ final[k] # <<>>
                      /\ final[k][1] \notin Whitespace \cup LineBreak
                      /\ final[k][Len(final[k])] \notin Whitespace \cup LineBreak
               /\ (v.t = "str" /\ final[k] # SENTINEL) => IsTrimOf(final[k], v.s)
               /\ v.t = "list" => final[k] = join(<<",", " ">>, StrEach(v.items))
               /\ v = PyList(<<PyStr(<<"A">>), PyStr(<<"B">>)>>)
                      => final[k] = <<"A", ",", " ", "B">>
               /\ v = PyList(<<PyStr(<<" ", "A", " ">>), PyInt(7)>>)
                      => final[k] = <<" ", "A", " ", ",", " ", "7">>

\* C9's case: a string with a line break inside, which the record keeps.
C9_Witness ==
    /\ phase = "normalized"
    /\ DictGet(extracted, <<"t", "i", "n">>) = PyStr(<<"A", "\n", "B">>)
    /\ final[<<"t", "i", "n">>] = <<"A", "\n", "B">>
    /\ DictGet(extracted, <<"p", "p", "g", "_", "i", "d">>)
           = PyList(<<PyStr(<<"A">>), PyStr(<<"B">>)>>)
    /\ final[<<"p", "p", "g", "_", "i", "d">>] = <<"A", ",", " ", "B">>

\* The candidate records of the row check.
RowRecords ==
    {\* {"provider_name": "Jane Doe", "tin": "123456789"}
     PyDict(<<[k |-> <<"p", "r", "o", "v", "i", "d", "e", "r", "_", "n", "a", "m", "e">>, v |-> PyStr(<<"J", "a", "n", "e", " ", "D", "o", "e">>)], [k |-> <<"t", "i", "n">>, v |-> PyStr(<<"1", "2", "3", "4", "5", "6", "7", "8", "9">>)]>>),
     \* {}
     PyDict(<<>>),
     \* {"tin": ["1", "2"], "ppg_id": " P ", "note": "q"}
     PyDict(<<[k |-> <<"t", "i", "n">>, v |-> PyList(<<PyStr(<<"1">>), PyStr(<<"2">>)>>)], [k |-> <<"p", "p", "g", "_", "i", "d">>, v |-> PyStr(<<" ", "P", " ">>)], [k |-> <<"n", "o", "t", "e">>, v |-> PyStr(<<"q">>)]>>)}

\* The header labels of the row check: Provider Name, Unknown Col, TIN, PPG ID
HeaderLabels ==
    {<<"P", "r", "o", "v", "i", "d", "e", "r", " ", "N", "a", "m", "e">>,
     <<"U", "n", "k", "n", "o", "w", "n", " ", "C", "o", "l">>,
     <<"T", "I", "N">>,
     <<"P", "P", "G", " ", "I", "D">>}

HeaderRows(max) == UNION {[1..len -> HeaderLabels] : len \in 0..max}

InitRow ==
    /\ extracted \in RowRecords
    /\ template \in HeaderRows(MaxHeaders)
    /\ final = NoRecord
    /\ row = <<>>
    /\ phase = "candidate"
    /\ pc = "idle" /\ eml_paths = <<>> /\ batch = 1 /\ i = 0 /\ batch_files = <<>>
    /\ j = 0 /\ email_text = <<>> /\ out_file = NoFile /\ appends = <<>>
    /\ began = <<>> /\ out = <<>> /\ interp = Returned(EmptyDict)

\* The loop over keys_in_order that builds row.
MapRow ==
    /\ phase = "normalized"
    /\ row' = BuildRow(keys_in_order(template), final)
    /\ phase' = "mapped"
    /\ UNCHANGED <<pc, eml_paths, batch, template, i, batch_files, j, email_text,
                   extracted, final, out_file, appends, began, out, interp>>

NextRow == NormalizeRecord \/ MapRow

SpecRow == InitRow /\ [][NextRow]_vars

\* The field a header maps to in TEMPLATE_TO_KEY, if it is one of its headers.
IsKnownHeader(h) == \E n \in 1..Len(TEMPLATE_TO_KEY.pairs) : TEMPLATE_TO_KEY.pairs[n].k = h
FieldOf(h) ==
    TEMPLATE_TO_KEY.pairs[CHOOSE n \in 1..Len(TEMPLATE_TO_KEY.pairs) :
                              TEMPLATE_TO_KEY.pairs[n].k = h].v.s

\* ["Provider Name", "Unknown Col", "TIN"] and ["Jane Doe", "Information not found", "123456789"]
ExampleHeaders == <<<<"P", "r", "o", "v", "i", "d", "e", "r", " ", "N", "a", "m", "e">>,
                    <<"U", "n", "k", "n", "o", "w", "n", " ", "C", "o", "l">>,
                    <<"T", "I", "N">>>>
ExampleRow == <<<<"J", "a", "n", "e", " ", "D", "o", "e">>,
                SENTINEL,
                <<"1", "2", "3", "4", "5", "6", "7", "8", "9">>>>

\* C8: the row has one cell per header, in the order of the headers: the
\* record's value for the field the header maps to, and the sentinel for a
\* header that maps to no field.
C8_RowAlignment ==
    phase = "mapped" =>
        /\ Len(row) = Len(template)
        /\ \A n \in 1..Len(template) :
              row[n] = IF IsKnownHeader(template[n]) THEN final[FieldOf(template[n])]
                       ELSE SENTINEL
        /\ (template = ExampleHeaders
              /\ final[<<"t", "i", "n">>] = ExampleRow[3]
              /\ final[FieldOf(ExampleHeaders[1])] = ExampleRow[1]) => row = ExampleRow

\* C8's case: the example, with a header that maps to no field in the middle.
C8_Witness ==
    /\ phase = "mapped"
    /\ template = ExampleHeaders
    /\ row = ExampleRow

====
